---- MODULE Spec2Model ----
(***************************************************************************)
(* Complex, the two-field value type of src/complex.rs, with its          *)
(* arithmetic operators, compound assignments, elementary functions and   *)
(* Display rendering.                                                      *)
(*                                                                         *)
(* An f64 is modelled by a reduced binary floating-point format that      *)
(* keeps every class of IEEE-754 value: NaN, the two infinities, the two  *)
(* zeros and the finite values, which are the multiples of 2^-FracBits    *)
(* up to MaxInt.  Results are rounded to nearest, ties to even; a result  *)
(* above MaxInt overflows to an infinity, one below half a quantum        *)
(* underflows to a signed zero.                                            *)
(***************************************************************************)
EXTENDS Integers, Sequences, FiniteSets

\* ------------------------------------------------------------ bounds
FracBits == 1        \* fractional bits of a finite value
MaxInt == 12         \* largest finite magnitude
MaxSteps == 2        \* compound assignments applied in one behaviour
LibmUnit == 1000     \* working resolution of the math-library functions

Scale == 2 ^ FracBits
MaxMag == MaxInt * Scale

\* ------------------------------------------------------------ f64 values
NaN == [k |-> "nan", s |-> 0, m |-> 0]
Inf(s) == [k |-> "inf", s |-> s, m |-> 0]
Fin(s, m) == IF m > MaxMag THEN Inf(s) ELSE [k |-> "fin", s |-> s, m |-> m]
Zero(s) == Fin(s, 0)
FromInt(i) == IF i < 0 THEN Fin(1, (0 - i) * Scale) ELSE Fin(0, i * Scale)
Half(i) == IF i < 0 THEN Fin(1, ((0 - i) * Scale) \div 2) ELSE Fin(0, (i * Scale) \div 2)

IsNaN(x) == x.k = "nan"
IsInf(x) == x.k = "inf"
IsFin(x) == x.k = "fin"
IsZero(x) == x.k = "fin" /\ x.m = 0
Xor(a, b) == IF a = b THEN 0 ELSE 1
Signed(x) == IF x.s = 1 THEN 0 - x.m ELSE x.m
Abs(i) == IF i < 0 THEN 0 - i ELSE i

\* n / d rounded to the nearest integer, ties to even (n >= 0, d > 0)
RoundDiv(n, d) ==
    LET q == n \div d
        rem == n % d
    IN  IF 2 * rem > d \/ (2 * rem = d /\ q % 2 = 1) THEN q + 1 ELSE q

\* the == of f64: NaN equals nothing, the two zeros are equal
FEq(x, y) ==
    /\ ~IsNaN(x)
    /\ ~IsNaN(y)
    /\ \/ x = y
       \/ IsZero(x) /\ IsZero(y)

FNeg(x) == IF IsNaN(x) THEN NaN ELSE [x EXCEPT !.s = 1 - x.s]

FAdd(x, y) ==
    IF IsNaN(x) \/ IsNaN(y) THEN NaN
    ELSE IF IsInf(x) /\ IsInf(y) THEN (IF x.s = y.s THEN x ELSE NaN)
    ELSE IF IsInf(x) THEN x
    ELSE IF IsInf(y) THEN y
    ELSE LET v == Signed(x) + Signed(y)
         IN  IF v = 0 THEN Zero(IF x.s = y.s THEN x.s ELSE 0)
             ELSE Fin(IF v < 0 THEN 1 ELSE 0, Abs(v))

FSub(x, y) == FAdd(x, FNeg(y))

FMul(x, y) ==
    IF IsNaN(x) \/ IsNaN(y) THEN NaN
    ELSE IF (IsInf(x) /\ IsZero(y)) \/ (IsZero(x) /\ IsInf(y)) THEN NaN
    ELSE IF IsInf(x) \/ IsInf(y) THEN Inf(Xor(x.s, y.s))
    ELSE Fin(Xor(x.s, y.s), RoundDiv(x.m * y.m, Scale))

FDiv(x, y) ==
    IF IsNaN(x) \/ IsNaN(y) THEN NaN
    ELSE IF IsInf(x) /\ IsInf(y) THEN NaN
    ELSE IF IsInf(x) THEN Inf(Xor(x.s, y.s))
    ELSE IF IsInf(y) THEN Zero(Xor(x.s, y.s))
    ELSE IF IsZero(y) THEN (IF IsZero(x) THEN NaN ELSE Inf(Xor(x.s, y.s)))
    ELSE Fin(Xor(x.s, y.s), RoundDiv(x.m * Scale, y.m))

\* ------------------------------------------------------------ math library
\* hypot, atan2, exp, ln, cos, sin and powi are the host's f64 functions.  Each
\* is evaluated in integer arithmetic at a resolution of 1/LibmUnit and the
\* value is then rounded into the number format.
One == FromInt(1)
PiQ == RoundDiv(355 * LibmUnit, 113)
TwoPiQ == RoundDiv(710 * LibmUnit, 113)
ExpCap == 7 * LibmUnit
ExpBig == 2000 * LibmUnit
SeriesTerms == 12

ToQ(x) == IF x.s = 1 THEN 0 - ((x.m * LibmUnit) \div Scale) ELSE (x.m * LibmUnit) \div Scale
FromQ(q) == Fin(IF q < 0 THEN 1 ELSE 0, RoundDiv(Abs(q) * Scale, LibmUnit))
Reduce(t) == ((t + PiQ) % TwoPiQ) - PiQ
SqQ(t) == (t * t) \div LibmUnit

\* sum over n of (-1)^n a_n, with a_(n+1) = a_n * t^2 / ((2n+c)(2n+c+1))
RECURSIVE AltSeries(_, _, _, _)
AltSeries(t2, c, n, a) ==
    IF n > SeriesTerms \/ a = 0 THEN 0
    ELSE LET next == ((a * t2) \div LibmUnit) \div ((2 * n + c) * (2 * n + c + 1))
         IN  a - AltSeries(t2, c, n + 1, next)

CosQ(t) == AltSeries(SqQ(t), 1, 0, LibmUnit)
SinQ(t) == IF t < 0 THEN 0 - AltSeries(SqQ(t), 2, 0, 0 - t) ELSE AltSeries(SqQ(t), 2, 0, t)

\* sum over n of t^n / n! for 0 <= t <= LibmUnit
RECURSIVE ExpSeries(_, _, _)
ExpSeries(t, n, a) ==
    IF n > SeriesTerms \/ a = 0 THEN 0
    ELSE a + ExpSeries(t, n + 1, ((a * t) \div LibmUnit) \div (n + 1))

RECURSIVE ExpQ(_)
ExpQ(t) ==
    IF t > ExpCap THEN ExpBig
    ELSE IF t < 0 - ExpCap THEN 0
    ELSE IF t < 0 THEN (LibmUnit * LibmUnit) \div ExpQ(0 - t)
    ELSE IF t <= LibmUnit THEN ExpSeries(t, 0, LibmUnit)
    ELSE LET h == ExpQ(t \div 2)
             g == ExpQ(t - (t \div 2))
         IN  (h * g) \div LibmUnit

\* the midpoint between the finite values j and j + 1 quanta
MidQ(j) == ((2 * j + 1) * LibmUnit) \div (2 * Scale)

ISqrt(n) == CHOOSE k \in 0..(2 * MaxMag + 2) : k * k <= n /\ n < (k + 1) * (k + 1)

F64Hypot(x, y) ==
    IF IsInf(x) \/ IsInf(y) THEN Inf(0)
    ELSE IF IsNaN(x) \/ IsNaN(y) THEN NaN
    ELSE LET n == x.m * x.m + y.m * y.m
             k == ISqrt(n)
         IN  Fin(0, IF n - k * k > k THEN k + 1 ELSE k)

F64Cos(x) == IF ~IsFin(x) THEN NaN ELSE FromQ(CosQ(Reduce(ToQ(x))))

F64Sin(x) ==
    IF ~IsFin(x) THEN NaN
    ELSE IF IsZero(x) THEN x
    ELSE FromQ(SinQ(Reduce(ToQ(x))))

F64Exp(x) ==
    IF IsNaN(x) THEN NaN
    ELSE IF IsInf(x) THEN (IF x.s = 0 THEN x ELSE Zero(0))
    ELSE FromQ(ExpQ(ToQ(x)))

F64Ln(x) ==
    IF IsNaN(x) THEN NaN
    ELSE IF IsZero(x) THEN Inf(1)
    ELSE IF x.s = 1 THEN NaN
    ELSE IF IsInf(x) THEN x
    ELSE LET xq == ToQ(x)
             above == {j \in (0 - 4 * Scale)..(4 * Scale) : ExpQ(MidQ(j)) > xq}
             k == CHOOSE j \in above : \A i \in above : j <= i
         IN  IF k = 0 THEN Zero(IF xq < LibmUnit THEN 1 ELSE 0)
             ELSE Fin(IF k < 0 THEN 1 ELSE 0, Abs(k))

\* the angle of (x, |y|) in [0, pi], in quanta: the number of midpoints below it
AngleOf(ym, xv) ==
    Cardinality({j \in 0..((PiQ * Scale) \div LibmUnit) :
        /\ MidQ(j) <= PiQ
        /\ ym * CosQ(MidQ(j)) - xv * SinQ(MidQ(j)) > 0})

F64Atan2(y, x) ==
    IF IsNaN(x) \/ IsNaN(y) THEN NaN
    ELSE IF IsInf(y) THEN
        (IF IsInf(x)
         THEN (IF x.s = 0 THEN [FromQ(PiQ \div 4) EXCEPT !.s = y.s]
               ELSE [FromQ((3 * PiQ) \div 4) EXCEPT !.s = y.s])
         ELSE [FromQ(PiQ \div 2) EXCEPT !.s = y.s])
    ELSE IF IsInf(x) \/ IsZero(y) THEN
        (IF x.s = 0 THEN Zero(y.s) ELSE [FromQ(PiQ) EXCEPT !.s = y.s])
    ELSE IF IsZero(x) THEN [FromQ(PiQ \div 2) EXCEPT !.s = y.s]
    ELSE Fin(y.s, AngleOf(y.m, Signed(x)))

\* f64::powi: square-and-multiply on |n|, the reciprocal for n < 0
RECURSIVE PowiLoop(_, _, _)
PowiLoop(a, b, acc) ==
    LET r1 == IF b % 2 = 1 THEN FMul(acc, a) ELSE acc
        b1 == b \div 2
    IN  IF b1 = 0 THEN r1 ELSE PowiLoop(FMul(a, a), b1, r1)

F64Powi(x, n) ==
    LET p == PowiLoop(x, Abs(n), One)
    IN  IF n < 0 THEN FDiv(One, p) ELSE p

\* ------------------------------------------------------------ Complex
new(real, imag) == [real |-> real, imag |-> imag]
REAL_UNIT == new(FromInt(1), Zero(0))
IMAG_UNIT == new(Zero(0), FromInt(1))
with_real(real) == new(real, Zero(0))
with_imag(imag) == new(Zero(0), imag)

abs(self) == F64Hypot(self.real, self.imag)
arg(self) == F64Atan2(self.imag, self.real)
norm(self) == FAdd(FMul(self.real, self.real), FMul(self.imag, self.imag))
conj(self) == new(self.real, FNeg(self.imag))

exp(self) ==
    LET exp_real == F64Exp(self.real)
    IN  new(FMul(exp_real, F64Cos(self.imag)), FMul(exp_real, F64Sin(self.imag)))

ln(self) == new(F64Ln(abs(self)), arg(self))

\* a slip: a zero base short-circuits to zero whatever the exponent
powi_zero_base(self, e) ==
    LET abs_pow == F64Powi(abs(self), e)
        a == arg(self)
    IN  IF IsZero(abs(self)) THEN new(Zero(0), Zero(0))
        ELSE new(FMul(abs_pow, F64Cos(FMul(FromInt(e), a))),
                 FMul(abs_pow, F64Sin(FMul(FromInt(e), a))))

powi(self, e) ==
    LET abs_pow == F64Powi(abs(self), e)
        a == arg(self)
    IN  new(FMul(abs_pow, F64Cos(FMul(FromInt(e), a))),
            FMul(abs_pow, F64Sin(FMul(FromInt(e), a))))

powc(self, e) ==
    LET l == ln(self)
    IN  new(F64Exp(FSub(FMul(e.real, l.real), FMul(e.imag, l.imag))),
            FAdd(FMul(e.real, l.imag), FMul(e.imag, l.real)))

neg(self) == new(FNeg(self.real), FNeg(self.imag))

add(self, other) == new(FAdd(self.real, other.real), FAdd(self.imag, other.imag))

add_assign(self, other) ==
    LET s1 == [self EXCEPT !.real = FAdd(self.real, other.real)]
    IN  [s1 EXCEPT !.imag = FAdd(s1.imag, other.imag)]

add_f64(self, rhs) == new(FAdd(self.real, rhs), self.imag)

add_assign_f64(self, rhs) == [self EXCEPT !.real = FAdd(self.real, rhs)]

\* a slip: the imaginary component copied from add
sub_imag_added(self, other) == new(FSub(self.real, other.real), FAdd(self.imag, other.imag))

sub(self, other) == new(FSub(self.real, other.real), FSub(self.imag, other.imag))

sub_assign(self, other) ==
    LET s1 == [self EXCEPT !.real = FSub(self.real, other.real)]
    IN  [s1 EXCEPT !.imag = FSub(s1.imag, other.imag)]

sub_f64(self, rhs) == new(FSub(self.real, rhs), self.imag)

\* a slip: the scalar broadcast to both components
sub_assign_f64_broadcast(self, rhs) ==
    [self EXCEPT !.real = FSub(self.real, rhs), !.imag = FSub(self.imag, rhs)]

sub_assign_f64(self, rhs) == [self EXCEPT !.real = FSub(self.real, rhs)]

\* a slip: the sign of the b*d term
mul_real_sign(self, other) ==
    new(FAdd(FMul(self.real, other.real), FMul(self.imag, other.imag)),
        FAdd(FMul(self.real, other.imag), FMul(self.imag, other.real)))

mul(self, other) ==
    new(FSub(FMul(self.real, other.real), FMul(self.imag, other.imag)),
        FAdd(FMul(self.real, other.imag), FMul(self.imag, other.real)))

\* a slip: two assignments in sequence, the second reading the updated real
mul_assign_sequential(self, other) ==
    LET s1 == [self EXCEPT !.real = FSub(FMul(self.real, other.real), FMul(self.imag, other.imag))]
    IN  [s1 EXCEPT !.imag = FAdd(FMul(s1.real, other.imag), FMul(s1.imag, other.real))]

\* a tuple assignment: both components are computed before either field is written
mul_assign(self, other) ==
    LET t == << FSub(FMul(self.real, other.real), FMul(self.imag, other.imag)),
                FAdd(FMul(self.real, other.imag), FMul(self.imag, other.real)) >>
    IN  [self EXCEPT !.real = t[1], !.imag = t[2]]

mul_f64(self, rhs) == new(FMul(self.real, rhs), FMul(self.imag, rhs))

mul_assign_f64(self, rhs) ==
    LET s1 == [self EXCEPT !.real = FMul(self.real, rhs)]
    IN  [s1 EXCEPT !.imag = FMul(s1.imag, rhs)]

\* a slip: a zero divisor answered with zero instead of the IEEE quotient
div_guarded(self, other) ==
    LET denom == norm(other)
    IN  IF IsZero(denom) THEN new(Zero(0), Zero(0))
        ELSE new(FDiv(FAdd(FMul(self.real, other.real), FMul(self.imag, other.imag)), denom),
                 FDiv(FSub(FMul(self.imag, other.real), FMul(self.real, other.imag)), denom))

\* a slip: the terms of the imaginary numerator exchanged
div_imag_swapped(self, other) ==
    LET denom == norm(other)
    IN  new(FDiv(FAdd(FMul(self.real, other.real), FMul(self.imag, other.imag)), denom),
            FDiv(FSub(FMul(self.real, other.imag), FMul(self.imag, other.real)), denom))

div(self, other) ==
    LET denom == norm(other)
    IN  new(FDiv(FAdd(FMul(self.real, other.real), FMul(self.imag, other.imag)), denom),
            FDiv(FSub(FMul(self.imag, other.real), FMul(self.real, other.imag)), denom))

div_assign(self, other) ==
    LET denom == norm(other)
        t == << FDiv(FAdd(FMul(self.real, other.real), FMul(self.imag, other.imag)), denom),
                FDiv(FSub(FMul(self.imag, other.real), FMul(self.real, other.imag)), denom) >>
    IN  [self EXCEPT !.real = t[1], !.imag = t[2]]

div_f64(self, rhs) == new(FDiv(self.real, rhs), FDiv(self.imag, rhs))

div_assign_f64(self, rhs) ==
    LET s1 == [self EXCEPT !.real = FDiv(self.real, rhs)]
    IN  [s1 EXCEPT !.imag = FDiv(s1.imag, rhs)]

\* ------------------------------------------------------------ rendering
\* Text is a sequence of one-character strings.
DigitChars == << "0", "1", "2", "3", "4", "5", "6", "7", "8", "9" >>

RECURSIVE Digits(_)
Digits(v) == IF v < 10 THEN << DigitChars[v + 1] >> ELSE Digits(v \div 10) \o << DigitChars[(v % 10) + 1] >>

\* the last p decimal digits of v, zero-padded
RECURSIVE FracDigits(_, _)
FracDigits(v, p) == IF p = 0 THEN << >> ELSE FracDigits(v \div 10, p - 1) \o << DigitChars[(v % 10) + 1] >>

RECURSIVE StripZeros(_)
StripZeros(ds) ==
    IF ds # << >> /\ ds[Len(ds)] = "0" THEN StripZeros(SubSeq(ds, 1, Len(ds) - 1)) ELSE ds

\* the decimal digits of m quanta with exactly p fractional digits, rounded half to even
Fixed(m, p) ==
    LET v == RoundDiv(m * (10 ^ p), Scale)
    IN  IF p = 0 THEN Digits(v)
        ELSE Digits(v \div (10 ^ p)) \o << "." >> \o FracDigits(v % (10 ^ p), p)

\* the shortest decimal text that reads back as m quanta: the exact expansion
Shortest(m) ==
    LET frac == StripZeros(FracDigits(((m % Scale) * (10 ^ FracBits)) \div Scale, FracBits))
    IN  IF frac = << >> THEN Digits(m \div Scale) ELSE Digits(m \div Scale) \o << "." >> \o frac

\* an f64 under {}, {:+}, {:.p$} and {:+.p$}; precision is an Option: << >> for
\* None, << p >> for Some(p).  A NaN is written without a sign whatever the flags.
F64Fmt(x, plus, precision) ==
    LET sign == IF x.s = 1 THEN << "-" >> ELSE IF plus THEN << "+" >> ELSE << >>
    IN  IF IsNaN(x) THEN << "N", "a", "N" >>
        ELSE IF IsInf(x) THEN sign \o << "i", "n", "f" >>
        ELSE IF precision = << >> THEN sign \o Shortest(x.m)
        ELSE sign \o Fixed(x.m, precision[1])

\* a slip: the + flag left off the imaginary component
fmt_no_plus(self, precision) ==
    F64Fmt(self.real, FALSE, precision) \o F64Fmt(self.imag, FALSE, precision) \o << "i" >>

fmt(self, precision) ==
    F64Fmt(self.real, FALSE, precision) \o F64Fmt(self.imag, TRUE, precision) \o << "i" >>

\* ------------------------------------------------------------ the caller
\* A caller owns a receiver z, a complex operand w and a real operand r.  It
\* applies up to MaxSteps compound assignments to z and, between them, calls
\* the non-mutating methods on (z, w, r) and consumes what they return.
VARIABLES
    z,       \* the receiver
    w,       \* the complex right operand (and the exponent of powc)
    r,       \* the real right operand
    call,    \* the last non-mutating call since the last mutation: name and parameters
    out,     \* what that call returned: a Complex, an f64 or a text
    hist,    \* the last two compound assignments, each with the receiver before it
    fold,    \* the non-mutating operators folded over the same assignments
    base,    \* the receiver after the last assignment other than a scalar += or -=
    steps    \* compound assignments so far

vars == << z, w, r, call, out, hist, fold, base, steps >>

Exponents == (0 - 2)..2
Precisions == { << >>, << 0 >>, << 1 >> }

ZInit ==
    { new(Zero(0), Zero(0)), REAL_UNIT, IMAG_UNIT,
      new(FromInt(3), FromInt(4)), new(Half(0 - 3), FromInt(2)), with_real(FromInt(4)),
      new(FromInt(MaxInt), Zero(1)), new(NaN, Inf(1)),
      new(FromInt(0 - 1), Zero(1)), new(Inf(0), FromInt(1)) }
WSet ==
    { new(Zero(0), Zero(0)), new(FromInt(1), FromInt(0 - 2)), with_real(FromInt(2)),
      with_real(Half(1)), IMAG_UNIT }
RSet == { Zero(0), FromInt(2), Half(0 - 1) }

NoCall == [f |-> "none", n |-> 0, p |-> << >>]
NoOut == [c |-> new(Zero(0), Zero(0)), f |-> Zero(0), t |-> << >>]
ScalarAddSub == { "add_assign_f64", "sub_assign_f64" }
Push(h, e) == IF Len(h) < 2 THEN Append(h, e) ELSE << h[2], e >>

Init ==
    /\ z \in ZInit
    /\ w \in WSet
    /\ r \in RSet
    /\ call = NoCall
    /\ out = NoOut
    /\ hist = << >>
    /\ fold = z
    /\ base = z
    /\ steps = 0

\* z op= operand: the receiver's fields are overwritten, nothing else
Compound(name, nz, nfold) ==
    /\ steps < MaxSteps
    /\ call = NoCall
    /\ z' = nz
    /\ fold' = nfold
    /\ hist' = Push(hist, [op |-> name, pre |-> z])
    /\ base' = IF name \in ScalarAddSub THEN base ELSE nz
    /\ steps' = steps + 1
    /\ call' = NoCall
    /\ out' = NoOut
    /\ UNCHANGED << w, r >>

AddAssign == Compound("add_assign", add_assign(z, w), add(fold, w))
AddAssignF64 == Compound("add_assign_f64", add_assign_f64(z, r), add_f64(fold, r))
SubAssign == Compound("sub_assign", sub_assign(z, w), sub(fold, w))
SubAssignF64 == Compound("sub_assign_f64", sub_assign_f64(z, r), sub_f64(fold, r))
MulAssign == Compound("mul_assign", mul_assign(z, w), mul(fold, w))
MulAssignF64 == Compound("mul_assign_f64", mul_assign_f64(z, r), mul_f64(fold, r))
DivAssign == Compound("div_assign", div_assign(z, w), div(fold, w))
DivAssignF64 == Compound("div_assign_f64", div_assign_f64(z, r), div_f64(fold, r))

\* a method taking self by value: the operands are copies, only the result is new
Pure(name, n, p, o) ==
    /\ steps < MaxSteps
    /\ call = NoCall
    /\ call' = [f |-> name, n |-> n, p |-> p]
    /\ out' = o
    /\ UNCHANGED << z, w, r, hist, fold, base, steps >>

CallAbs == Pure("abs", 0, << >>, [NoOut EXCEPT !.f = abs(z)])
CallArg == Pure("arg", 0, << >>, [NoOut EXCEPT !.f = arg(z)])
CallNorm == Pure("norm", 0, << >>, [NoOut EXCEPT !.f = norm(z)])
\* a slip: conj negating the receiver's own field
CallConjInPlace ==
    /\ steps < MaxSteps
    /\ call = NoCall
    /\ call' = [f |-> "conj", n |-> 0, p |-> << >>]
    /\ out' = [NoOut EXCEPT !.c = conj(z)]
    /\ z' = conj(z)
    /\ fold' = conj(z)
    /\ base' = conj(z)
    /\ UNCHANGED << w, r, hist, steps >>

CallConj == Pure("conj", 0, << >>, [NoOut EXCEPT !.c = conj(z)])
CallExp == Pure("exp", 0, << >>, [NoOut EXCEPT !.c = exp(z)])
CallLn == Pure("ln", 0, << >>, [NoOut EXCEPT !.c = ln(z)])
CallPowi == \E e \in Exponents : Pure("powi", e, << >>, [NoOut EXCEPT !.c = powi(z, e)])
CallPowc == Pure("powc", 0, << >>, [NoOut EXCEPT !.c = powc(z, w)])
CallNeg == Pure("neg", 0, << >>, [NoOut EXCEPT !.c = neg(z)])
CallAdd == Pure("add", 0, << >>, [NoOut EXCEPT !.c = add(z, w)])
CallAddF64 == Pure("add_f64", 0, << >>, [NoOut EXCEPT !.c = add_f64(z, r)])
CallSub == Pure("sub", 0, << >>, [NoOut EXCEPT !.c = sub(z, w)])
CallSubF64 == Pure("sub_f64", 0, << >>, [NoOut EXCEPT !.c = sub_f64(z, r)])
CallMul == Pure("mul", 0, << >>, [NoOut EXCEPT !.c = mul(z, w)])
CallMulF64 == Pure("mul_f64", 0, << >>, [NoOut EXCEPT !.c = mul_f64(z, r)])
CallDiv == Pure("div", 0, << >>, [NoOut EXCEPT !.c = div(z, w)])
CallDivF64 == Pure("div_f64", 0, << >>, [NoOut EXCEPT !.c = div_f64(z, r)])
\* (z + w) - w: the sum just returned is the receiver of the subtraction
CallSubOfSum ==
    /\ call.f = "add"
    /\ call' = [call EXCEPT !.f = "sub_of_add"]
    /\ out' = [NoOut EXCEPT !.c = sub(out.c, w)]
    /\ UNCHANGED << z, w, r, hist, fold, base, steps >>

CallFmt == \E p \in Precisions : Pure("fmt", 0, p, [NoOut EXCEPT !.t = fmt(z, p)])

\* the returned value is used and dropped; the operands are as they were
Consume ==
    /\ call # NoCall
    /\ call' = NoCall
    /\ out' = NoOut
    /\ UNCHANGED << z, w, r, hist, fold, base, steps >>

Next ==
    \/ Consume
    \/ AddAssign
    \/ AddAssignF64
    \/ SubAssign
    \/ SubAssignF64
    \/ MulAssign
    \/ MulAssignF64
    \/ DivAssign
    \/ DivAssignF64
    \/ CallAbs
    \/ CallArg
    \/ CallNorm
    \/ CallConj
    \/ CallExp
    \/ CallLn
    \/ CallPowi
    \/ CallPowc
    \/ CallNeg
    \/ CallAdd
    \/ CallAddF64
    \/ CallSub
    \/ CallSubF64
    \/ CallMul
    \/ CallMulF64
    \/ CallDiv
    \/ CallDivF64
    \/ CallSubOfSum
    \/ CallFmt

Spec == Init /\ [][Next]_vars

\* ------------------------------------------------------------ properties
Assigned == hist # << >>
Last == hist[Len(hist)]
Finite(c) == IsFin(c.real) /\ IsFin(c.imag)
HasNaN(c) == IsNaN(c.real) \/ IsNaN(c.imag)
NaNOrInf(x) == IsNaN(x) \/ IsInf(x)
\* component-wise == of f64
CEq(a, b) == FEq(a.real, b.real) /\ FEq(a.imag, b.imag)
\* the same number: == of f64, or NaN on both sides
Same(x, y) == FEq(x, y) \/ (IsNaN(x) /\ IsNaN(y))
CSame(a, b) == Same(a.real, b.real) /\ Same(a.imag, b.imag)
Three4 == new(FromInt(3), FromInt(4))
OneMinus2 == new(FromInt(1), FromInt(0 - 2))

\* what the non-mutating operator gives for the operands of a compound assignment
OperatorFor(name, self) ==
    CASE name = "add_assign" -> add(self, w)
      [] name = "add_assign_f64" -> add_f64(self, r)
      [] name = "sub_assign" -> sub(self, w)
      [] name = "sub_assign_f64" -> sub_f64(self, r)
      [] name = "mul_assign" -> mul(self, w)
      [] name = "mul_assign_f64" -> mul_f64(self, r)
      [] name = "div_assign" -> div(self, w)
      [] name = "div_assign_f64" -> div_f64(self, r)

\* C1: after z op= x the receiver has exactly the fields of z op x, for each of
\* the eight compound assignments, and after a sequence of them it equals the
\* fold of the same sequence through the non-mutating operators.
C1_CompoundIsOperator ==
    /\ z = fold
    /\ Assigned => z = OperatorFor(Last.op, Last.pre)

C1_Witness ==
    /\ Len(hist) = 2
    /\ hist[1].op = "div_assign_f64"
    /\ hist[2].op = "mul_assign"
    /\ Finite(z)
    /\ z.imag # hist[2].pre.imag
    /\ z.real # hist[2].pre.real

\* C2: powc(z, e) is exp(e * ln(z)): with p = e * ln(z), the result is
\* (exp(p.real) * cos(p.imag), exp(p.real) * sin(p.imag)).
\* IMAG_UNIT.powc(with_real(2)) is (-1, 0).
C2_PowcIsExpOfProduct ==
    /\ call.f = "powc" => CSame(out.c, exp(mul(w, ln(z))))
    /\ call.f = "powc" /\ z = IMAG_UNIT /\ w = with_real(FromInt(2)) =>
           CEq(out.c, new(FromInt(0 - 1), Zero(0)))

\* C3: dividing by a complex value whose norm is exactly zero returns a value
\* whose two components are each NaN or an infinity, as z / w and as z /= w.
C3_DivByZeroNorm ==
    /\ call.f = "div" /\ IsZero(norm(w)) => NaNOrInf(out.c.real) /\ NaNOrInf(out.c.imag)
    /\ Assigned /\ Last.op = "div_assign" /\ IsZero(norm(w)) => NaNOrInf(z.real) /\ NaNOrInf(z.imag)

C3_Witness ==
    /\ call.f = "div"
    /\ z = REAL_UNIT
    /\ w = new(Zero(0), Zero(0))
    /\ IsNaN(out.c.real)
    /\ IsNaN(out.c.imag)

\* C4: adding or subtracting a real scalar changes the real component to
\* z.real + r (z.real - r) and leaves the imaginary component as it was, for
\* the operators and the compound assignments; through a run of scalar += and
\* -= the imaginary component stays what it was when the run began.
C4_ScalarLeavesImag ==
    /\ call.f = "add_f64" => out.c.imag = z.imag /\ out.c.real = FAdd(z.real, r)
    /\ call.f = "sub_f64" => out.c.imag = z.imag /\ out.c.real = FSub(z.real, r)
    /\ Assigned /\ Last.op = "add_assign_f64" =>
           z.imag = Last.pre.imag /\ z.real = FAdd(Last.pre.real, r)
    /\ Assigned /\ Last.op = "sub_assign_f64" =>
           z.imag = Last.pre.imag /\ z.real = FSub(Last.pre.real, r)
    /\ z.imag = base.imag

C4_Witness ==
    /\ Len(hist) = 2
    /\ hist[1].op = "add_assign_f64"
    /\ hist[2].op = "sub_assign_f64"
    /\ ~IsZero(r)
    /\ z.real # hist[2].pre.real
    /\ z.imag = hist[1].pre.imag
    /\ z.imag = FromInt(4)

\* C5 as stated: powi with exponent 0 returns the real unit for every base.
C5_PowiZeroAnyBase ==
    call.f = "powi" /\ call.n = 0 => CEq(out.c, REAL_UNIT)

\* C5, amended: powi with exponent 0 returns the real unit for every base
\* neither of whose components is NaN, the zero base included.
C5_PowiZero ==
    call.f = "powi" /\ call.n = 0 /\ ~HasNaN(z) => CEq(out.c, REAL_UNIT)

C5_Witness ==
    /\ call.f = "powi"
    /\ call.n = 0
    /\ z = new(Zero(0), Zero(0))
    /\ out.c = REAL_UNIT

\* (a, b) * (c, d) written out
Product(a, b, c, d) == new(FSub(FMul(a, c), FMul(b, d)), FAdd(FMul(a, d), FMul(b, c)))

\* C6: (a, b) * (c, d) is (a*c - b*d, a*d + b*c), as the operator and as *=
\* (both components from the receiver's old fields); (3,4)*(1,-2) = (11,-2)
\* and IMAG_UNIT * IMAG_UNIT = (-1, 0).
C6_MulFormula ==
    /\ call.f = "mul" => out.c = Product(z.real, z.imag, w.real, w.imag)
    /\ Assigned /\ Last.op = "mul_assign" =>
           z = Product(Last.pre.real, Last.pre.imag, w.real, w.imag)
    /\ call.f = "mul" /\ z = Three4 /\ w = OneMinus2 =>
           out.c = new(FromInt(11), FromInt(0 - 2))
    /\ Assigned /\ Last.op = "mul_assign" /\ Last.pre = Three4 /\ w = OneMinus2 =>
           z = new(FromInt(11), FromInt(0 - 2))
    /\ call.f = "mul" /\ z = IMAG_UNIT /\ w = IMAG_UNIT => out.c = new(FromInt(0 - 1), Zero(0))

C6_Witness ==
    /\ Assigned
    /\ Last.op = "mul_assign"
    /\ Last.pre = Three4
    /\ w = OneMinus2
    /\ z = new(FromInt(11), FromInt(0 - 2))

\* the last sign character of a text lies after its first character, and the
\* text ends in the suffix i
Signs == { "+", "-" }
SignedImagShape(t) ==
    /\ Len(t) >= 3
    /\ t[Len(t)] = "i"
    /\ \E i \in 2..(Len(t) - 2) : t[i] \in Signs /\ \A j \in (i + 1)..Len(t) : t[j] \notin Signs

\* C7 as stated: in both renderings the imaginary component carries an
\* explicit sign for every value of the imaginary field, NaN included.
C7_SignAlways ==
    call.f = "fmt" => SignedImagShape(out.t)

\* C7, amended: in both renderings the imaginary component carries an
\* explicit + or - whenever the imaginary field is not NaN (positive, negative,
\* either zero, infinite); a NaN imaginary field is written NaN with no sign.
\* (-1.5, 2.0) renders as -1.5+2i.
C7_SignUnlessNaN ==
    /\ call.f = "fmt" /\ ~IsNaN(z.imag) => SignedImagShape(out.t)
    /\ call.f = "fmt" /\ IsNaN(z.imag) =>
           /\ Len(out.t) >= 4
           /\ SubSeq(out.t, Len(out.t) - 3, Len(out.t)) = << "N", "a", "N", "i" >>
           /\ \A j \in 2..Len(out.t) : out.t[j] \notin Signs
    /\ call.f = "fmt" /\ call.p = << >> /\ z = new(Half(0 - 3), FromInt(2)) =>
           out.t = << "-", "1", ".", "5", "+", "2", "i" >>

C7_Witness ==
    /\ call.f = "fmt"
    /\ call.p = << >>
    /\ z = new(Half(0 - 3), FromInt(2))
    /\ out.t = << "-", "1", ".", "5", "+", "2", "i" >>

\* |a - b| <= 1e-9 * |b| for finite a and b
TolInv == 10 ^ 9
WithinTol(a, b) ==
    /\ IsFin(a)
    /\ IsFin(b)
    /\ Abs(Signed(a) - Signed(b)) <= b.m \div TolInv
\* both component additions of x + y are exact: neither overflows
ExactSum(x, y) == Finite(add(x, y))

\* z += w; z -= w were the last two assignments
AddThenSub == Len(hist) = 2 /\ hist[1].op = "add_assign" /\ hist[2].op = "sub_assign"

\* C8 as stated: for all finite z and w, (z + w) - w == z exactly where the
\* component additions are exact and within 1e-9 relative tolerance otherwise,
\* and likewise z += w; z -= w restores the receiver.
C8_AddSubAllFinite ==
    /\ call.f = "sub_of_add" /\ Finite(z) /\ Finite(w) =>
           IF ExactSum(z, w) THEN CEq(out.c, z)
           ELSE WithinTol(out.c.real, z.real) /\ WithinTol(out.c.imag, z.imag)
    /\ AddThenSub /\ Finite(hist[1].pre) /\ Finite(w) =>
           IF Finite(hist[2].pre) THEN CEq(z, hist[1].pre)
           ELSE WithinTol(z.real, hist[1].pre.real) /\ WithinTol(z.imag, hist[1].pre.imag)

\* C8, amended: for all finite z and w whose component sums z + w are exact
\* (no overflow), (z + w) - w == z component-wise, and z += w; z -= w
\* restores the receiver.
C8_AddSubExact ==
    /\ call.f = "sub_of_add" /\ Finite(z) /\ Finite(w) /\ ExactSum(z, w) => CEq(out.c, z)
    /\ AddThenSub /\ Finite(hist[1].pre) /\ Finite(w) /\ Finite(hist[2].pre) =>
           CEq(z, hist[1].pre)

C8_Witness ==
    /\ AddThenSub
    /\ hist[1].pre = Three4
    /\ w = OneMinus2
    /\ hist[2].pre = new(FromInt(4), FromInt(2))
    /\ z = Three4

\* (z + w) - w computed by the operators, for the same operands
C8_WitnessOperators ==
    /\ call.f = "sub_of_add"
    /\ z = Three4
    /\ w = OneMinus2
    /\ out.c = Three4

\* C9: a non-mutating operation leaves its receiver and its operands as they
\* were; a compound assignment writes the receiver only and leaves the right
\* operands as they were.
C9_Frame ==
    [][ /\ call'.f # "none" => z' = z /\ w' = w /\ r' = r
        /\ steps' # steps => w' = w /\ r' = r /\ Len(hist') > 0 /\ hist'[Len(hist')].pre = z
      ]_vars

C9_Witness ==
    /\ steps > 0
    /\ call.f = "conj"
    /\ z = fold
    /\ out.c.imag # z.imag

\* C10: z / w has the components of (z * w.conj()) / w.norm(), the product by
\* the complex * and the quotient by the scalar /; (4,0)/(2,0) = (2,0).
C10_DivDecomposition ==
    /\ call.f = "div" => out.c = div_f64(mul(z, conj(w)), norm(w))
    /\ call.f = "div" /\ z = with_real(FromInt(4)) /\ w = with_real(FromInt(2)) =>
           out.c = new(FromInt(2), Zero(0))

C10_Witness ==
    /\ call.f = "div"
    /\ z = Three4
    /\ w = OneMinus2
    /\ out.c = new(FromInt(0 - 1), FromInt(2))

====
